---- MODULE Spec2Model ----
(***************************************************************************)
(* Observable Entropy worker: the signature and chain verifier             *)
(* (utils.ts hasValidEntropySignature), the contribution pool              *)
(* (POST /entries, GET /entries) over the key-value store, the routes that *)
(* read the origin (GET /latest, /commit/:id, /hash/:hash, /verify/..),    *)
(* and the format validator sha256Hash() over the characters of a value.   *)
(*                                                                         *)
(* Strings are sequences of tokens.  A token is either a piece of plain    *)
(* text or the hexadecimal rendering of one 32-byte value, in lower case   *)
(* or with upper-case letters.  A 32-byte value is an atom (a value given  *)
(* from outside), the SHA-256 digest of a string (kept as the term         *)
(* sha(preimage): the digest is taken to be collision free over the chains *)
(* of rounds a call that ends can make), or one half                       *)
(* of the Ed25519 signature of a message under a key.                      *)
(***************************************************************************)
EXTENDS Integers, Sequences, FiniteSets, TLC

VARIABLES
    \* hasValidEntropySignature(hash, entropy), one call
    claimedHash,    \* the parameter hash
    entropy,        \* the parameter entropy
    vpc,            \* position in the function
    newHash,        \* genSlowHash: let newHash
    loopI,          \* genSlowHash: let i
    verified,       \* "none" until the call ends, then "true", "false" or "raised"
    digestCalls,    \* number of crypto.subtle.digest calls made
    faulted,        \* the primitive that raised inside the call: "", "hexDecode" or "digest"
    prev,           \* the calls already made: <<entropy, hash, result, fault>> each
    \* the worker and its key-value namespace OBSERVABLE_ENTROPY
    kv,             \* set of [key, value, expiration]
    now,            \* the clock, unix seconds
    nextUlid,       \* ulid() mints nextUlid
    pc,             \* POST /entries: position of each request
    entryBody,      \* POST /entries: const entryBody
    key,            \* POST /entries: const key
    expiration,     \* POST /entries: const expiration
    submitTime,     \* POST /entries: the value getNowInUnixSeconds() returned
    sent,           \* POST /entries: the responses sent, in order
    puts,           \* the writes each request attempted on the namespace, in order
    lpc,            \* GET /entries: position
    lkeys,          \* GET /entries: entryKeys not yet read
    kvEntries,      \* GET /entries: const kvEntries
    lsent,          \* GET /entries: the responses sent, in order
    lseen,          \* GET /entries: requests answered 201 when the listing began
    \* the routes that read the origin: GET /latest, /commit/:id, /hash/:hash,
    \* /verify/commit/:id and /verify/hash/:hash, one request
    route,          \* the route of the request, "idle" before it arrives
    param,          \* req.params.id or req.params.hash
    rpc,            \* position in the handler
    kvLatest,       \* GET /latest: const kvLatest, the values read (none, or one)
    respJsonId,     \* fetchEntropyByEntropyHash: respJsonId.id
    entropyResp,    \* const entropyResp, the origin's answers received (none, or one)
    fetches,        \* the requests made to the origin, in order
    rsent,          \* the responses sent, in order
    \* one value handed to the refinement sha256Hash(), character by character
    value,          \* the value under test
    given,          \* the value it was made from
    change          \* how: "none", "removed", "replaced", "appended"

verifyVars == <<claimedHash, entropy, vpc, newHash, loopI, verified, digestCalls, faulted, prev>>
postVars == <<pc, entryBody, key, expiration, submitTime, sent, puts, nextUlid>>
listVars == <<lpc, lkeys, kvEntries, lsent, lseen>>
poolVars == <<postVars, listVars, kv, now>>
routeVars == <<route, param, rpc, kvLatest, respJsonId, entropyResp, fetches, rsent>>
valueVars == <<value, given, change>>
vars == <<verifyVars, poolVars, routeVars, valueVars>>

----------------------------------------------------------------------------
(* Bounds of the model *)
MaxFiles == 2        \* longest files array drawn
MaxIter == 2         \* largest hashIterations drawn
MaxSubmits == 2      \* POST /entries requests
MaxTicks == 2        \* clock advances

----------------------------------------------------------------------------
(* Strings *)

Tok(k, u, n, p) == [k |-> k, u |-> u, n |-> n, p |-> p]
Text(k) == Tok(k, FALSE, 0, <<>>)
Num(n) == Tok("num", FALSE, n, <<>>)
OX == Text("0x")
Junk == Text("zz")
Undefined == <<Text("undefined")>>
Atom(n) == Tok("atom", FALSE, n, <<>>)

HexKinds == {"atom", "sha", "sigR", "sigS", "commit"}
IsHexTok(t) == t.k \in HexKinds
Upper(t) == IF IsHexTok(t) THEN [t EXCEPT !.u = TRUE] ELSE t
Lower(t) == IF IsHexTok(t) THEN [t EXCEPT !.u = FALSE] ELSE t
UpperStr(s) == [j \in 1..Len(s) |-> Upper(s[j])]


\* the {20}, {32} and {64} of the three patterns; a 32-byte value renders to 32
\* pairs of hex digits and a git commit id (20 bytes) to 20
SHA1_PAIRS == 20
SHA256_PAIRS == 32
SIGNATURE_PAIRS == 64
TokPairs == SHA256_PAIRS
PairsOf(t) == IF t.k = "commit" THEN SHA1_PAIRS ELSE TokPairs

RECURSIVE SumPairs(_)
SumPairs(s) == IF s = <<>> THEN 0 ELSE PairsOf(Head(s)) + SumPairs(Tail(s))

RECURSIVE StripOx(_)
StripOx(s) == IF s # <<>> /\ Head(s) = OX THEN StripOx(Tail(s)) ELSE s

\* /^(?:(0x)*([A-Fa-f0-9]{2}){pairs})$/i
HexRegex(s, pairs) ==
    LET r == StripOx(s)
    IN /\ s # Undefined
       /\ \A j \in 1..Len(r) : IsHexTok(r[j])
       /\ SumPairs(r) = pairs

SHA1_REGEX(s) == HexRegex(s, SHA1_PAIRS)
SHA256_REGEX(s) == HexRegex(s, SHA256_PAIRS)
SIGNATURE_REGEX(s) == HexRegex(s, SIGNATURE_PAIRS)

\* sha256Hash that accepts every string
sha256HashAnyString(v) == v # Undefined

\* superstruct refinements of types.ts
sha1Hash(v) == SHA1_REGEX(v)
sha256Hash(v) == SHA256_REGEX(v)
signature(v) == SIGNATURE_REGEX(v)

\* iso8601UTC over the date-times drawn: ends in Z or +00:00, valid, offset UTC
iso8601UTC(v) == v \in {"2021-06-28T17:38:30Z", "2021-06-28T17:38:30+00:00"}

\* crypto.subtle.digest('SHA-256', encode(s)) rendered as lower-case hex
Sha256Hex(s) == <<Tok("sha", FALSE, 0, s)>>

\* @stablelib/hex decode: raises on a non-hex character, ignores letter case
HexDecodable(s) == \A j \in 1..Len(s) : IsHexTok(s[j])
hexDecode(s) == [j \in 1..Len(s) |-> Lower(s[j])]

\* the fixed key, and the other keys of the world
ED25519_PUBLIC_KEY == 1
OtherKey == ED25519_PUBLIC_KEY + 1

\* the signature (R || S) of message bytes m under key k
Ed25519Sign(m, k) == <<Tok("sigR", FALSE, k, m), Tok("sigS", FALSE, k, m)>>

\* tweetnacl sign.detached.verify(msg, sig, publicKey)
VerifyDetached(msg, sig, publicKey) == sig = Ed25519Sign(msg, publicKey)

----------------------------------------------------------------------------
(* constants.ts: SHA256_REGEX over the characters of a value *)

Digits == {"0", "1", "2", "3", "4", "5", "6", "7", "8", "9"}

\* the class [A-Fa-f0-9]
HexClass == Digits \cup {"A", "B", "C", "D", "E", "F"} \cup {"a", "b", "c", "d", "e", "f"}

\* the flag i: both characters are compared after Canonicalize, which maps a letter
\* to its upper case
Canonicalize(c) ==
    CASE c = "a" -> "A" [] c = "b" -> "B" [] c = "c" -> "C" [] c = "d" -> "D"
      [] c = "e" -> "E" [] c = "f" -> "F" [] c = "g" -> "G" [] c = "x" -> "X"
      [] OTHER -> c

MatchesClass(c) == \E d \in HexClass : Canonicalize(d) = Canonicalize(c)
MatchesChar(c, lit) == Canonicalize(c) = Canonicalize(lit)

\* MatchPairs without the $ at the end
RECURSIVE MatchPairsNoEnd(_, _, _)
MatchPairsNoEnd(s, i, n) ==
    IF n = 0 THEN TRUE
    ELSE /\ i + 1 <= Len(s)
         /\ MatchesClass(s[i])
         /\ MatchesClass(s[i + 1])
         /\ MatchPairsNoEnd(s, i + 2, n - 1)

\* ([A-Fa-f0-9]{2}){n} and then $, from position i: $ is the end of the input
RECURSIVE MatchPairs(_, _, _)
MatchPairs(s, i, n) ==
    IF n = 0 THEN i = Len(s) + 1
    ELSE /\ i + 1 <= Len(s)
         /\ MatchesClass(s[i])
         /\ MatchesClass(s[i + 1])
         /\ MatchPairs(s, i + 2, n - 1)

\* (0x)* from position i: one more 0x, or the rest of the pattern
RECURSIVE MatchPrefixes(_, _, _)
MatchPrefixes(s, i, n) ==
    \/ /\ i + 1 <= Len(s)
       /\ MatchesChar(s[i], "0")
       /\ MatchesChar(s[i + 1], "x")
       /\ MatchPrefixes(s, i + 2, n)
    \/ MatchPairs(s, i, n)

\* SHA256_REGEX.test(value): ^ is position 1
RegexTest(s, n) == MatchPrefixes(s, 1, n)

\* sha256Hash(): typeof value === 'string' and SHA256_REGEX.test(value)
sha256HashOfValue(v) == v.type = "string" /\ RegexTest(v.chars, SHA256_PAIRS)

\* the values drawn: a number, undefined, and the strings made of up to MaxPrefixes
\* prefixes (0x or 0X), a run of hex digits one pair short of, equal to and one pair
\* longer than the pattern's, and nothing or one more 0x after them
MaxPrefixes == 2
StringValue(chars) == [type |-> "string", chars |-> chars]
NumberValue == [type |-> "number", chars |-> <<>>]
UndefinedValue == [type |-> "undefined", chars |-> <<>>]
Patterns == {<<"a">>, <<"0", "F">>, <<"9", "c", "B">>}
Repeat(pat, n) == [j \in 1..n |-> pat[((j - 1) % Len(pat)) + 1]]
Prefixes(k, x) == [j \in 1..(2 * k) |-> IF j % 2 = 1 THEN "0" ELSE x]
GivenValues ==
    {NumberValue, UndefinedValue}
    \cup {StringValue((Prefixes(k, x) \o Repeat(pat, 2 * SHA256_PAIRS + d)) \o tail) :
             k \in 0..MaxPrefixes, x \in {"x", "X"}, pat \in Patterns, d \in {-2, 0, 2},
             tail \in {<<>>, <<"0", "x">>}}

ValueIdle ==
    /\ value = UndefinedValue
    /\ given = UndefinedValue
    /\ change = "none"

ValueInit ==
    /\ value \in GivenValues
    /\ given = value
    /\ change = "none"

\* the string with the character at position i removed
RemoveChar(i) ==
    /\ change = "none"
    /\ value.type = "string"
    /\ i \in 1..Len(value.chars)
    /\ value' = StringValue(SubSeq(value.chars, 1, i - 1) \o SubSeq(value.chars, i + 1, Len(value.chars)))
    /\ change' = "removed"
    /\ UNCHANGED <<given, verifyVars, poolVars, routeVars>>

\* the string with the character at position i replaced by another character
ReplaceChar(i, c) ==
    /\ change = "none"
    /\ value.type = "string"
    /\ i \in 1..Len(value.chars)
    /\ c # value.chars[i]
    /\ value' = StringValue([value.chars EXCEPT ![i] = c])
    /\ change' = "replaced"
    /\ UNCHANGED <<given, verifyVars, poolVars, routeVars>>

\* the string with one more character at its end
AppendChar(c) ==
    /\ change = "none"
    /\ value.type = "string"
    /\ value' = StringValue(Append(value.chars, c))
    /\ change' = "appended"
    /\ UNCHANGED <<given, verifyVars, poolVars, routeVars>>

\* the characters a string is changed with: hex digits and characters outside the class
NewChars == {"0", "E", "g", "G", "x", " ", "\n"}

----------------------------------------------------------------------------
(* types.ts: the schemas *)

\* JsonFileStruct: hash, hashType and name are strings
JsonFileStruct(f) == f.hash # Undefined /\ f.hashType # "undefined" /\ f.name # "undefined"

\* SignedEntropyStruct: object() also rejects an attribute it does not name
SignedEntropyStruct(e) ==
    /\ iso8601UTC(e.createdAt)
    /\ \A j \in 1..Len(e.files) : JsonFileStruct(e.files[j])
    /\ sha256Hash(e.hash)
    /\ e.hashIterations \in Int
    /\ e.hashType = "sha256"
    /\ sha256Hash(e.prevHash)
    /\ signature(e.signature)
    /\ e.unknown = {}

\* EntropyStruct: prevHash and signature are optional, and so are id and forCommit,
\* which a record carries (well formed) when its unknown names them
EntropyStruct(e) ==
    /\ e.unknown \subseteq {"id", "forCommit"}
    /\ iso8601UTC(e.createdAt)
    /\ \A j \in 1..Len(e.files) : JsonFileStruct(e.files[j])
    /\ sha256Hash(e.hash)
    /\ e.hashIterations \in Int
    /\ e.hashType = "sha256"
    /\ e.prevHash = Undefined \/ sha256Hash(e.prevHash)
    /\ e.signature = Undefined \/ signature(e.signature)

\* EntryStruct: entropy a SHA-256 hex string, for an optional string
EntryStruct(b) ==
    /\ sha256Hash(b.entropy)
    /\ b.unknown = {}

----------------------------------------------------------------------------
(* utils.ts *)

\* concatenateFileHashes that joins the name of each file with its hash
RECURSIVE concatenateFileHashesAndNames(_)
concatenateFileHashesAndNames(files) ==
    IF files = <<>> THEN <<>>
    ELSE (Head(files).hash \o <<Text(Head(files).name)>>) \o concatenateFileHashesAndNames(Tail(files))

RECURSIVE concatenateFileHashes(_)
concatenateFileHashes(files) ==
    IF files = <<>> THEN <<>> ELSE Head(files).hash \o concatenateFileHashes(Tail(files))

\* the records and hashes one call is drawn from
FileHashes == {<<>>, <<Atom(1)>>, <<Atom(2)>>}
Files == UNION {[1..n -> [hash : FileHashes, hashType : {"sha256"}, name : {"f.json"}]] : n \in 0..MaxFiles}

RECURSIVE IterDigest(_, _)
IterDigest(s, n) == IF n <= 0 THEN s ELSE Sha256Hex(IterDigest(s, n - 1))

HashesFor(files, n) ==
    LET good == IterDigest(concatenateFileHashes(files), n)
    IN {good, UpperStr(good), <<OX>> \o good, <<Atom(3)>>, <<Junk>>}

SignaturesFor(h) ==
    LET m == hexDecode(StripOx(h))
        good == Ed25519Sign(m, ED25519_PUBLIC_KEY)
    IN {good, UpperStr(good), <<OX>> \o good,
        Ed25519Sign(<<Atom(3)>>, ED25519_PUBLIC_KEY),
        Ed25519Sign(m, OtherKey), <<Junk>>, Undefined}

\* the attributes outside hash, signature, hashIterations and files
Others ==
    LET ok == [createdAt |-> "2021-06-28T17:38:30Z", hashType |-> "sha256",
               prevHash |-> <<Atom(4)>>, unknown |-> {}]
    IN {ok,
        [ok EXCEPT !.createdAt = "2021-06-28T17:38:30+00:00"],
        [ok EXCEPT !.createdAt = "2021-06-28T17:38:30+01:00"],
        [ok EXCEPT !.createdAt = "2021-06-28"],
        [ok EXCEPT !.hashType = "sha512"],
        [ok EXCEPT !.prevHash = Undefined],
        [ok EXCEPT !.unknown = {"id"}]}

MkEntropy(files, n, h, sig, o) ==
    [createdAt |-> o.createdAt, files |-> files, hash |-> h, hashIterations |-> n,
     hashType |-> o.hashType, prevHash |-> o.prevHash, signature |-> sig,
     unknown |-> o.unknown]

\* every hash and signature drawn with the other attributes well formed, and every
\* draw of the other attributes with the hash and the signature genuine
OkOther == CHOOSE o \in Others : o.createdAt = "2021-06-28T17:38:30Z" /\ o.hashType = "sha256"
                                 /\ o.prevHash # Undefined /\ o.unknown = {}

EntropiesFor(f, n) ==
    LET good == IterDigest(concatenateFileHashes(f), n)
    IN UNION {{MkEntropy(f, n, h, sig, OkOther) : sig \in SignaturesFor(h)} : h \in HashesFor(f, n)}
       \cup {MkEntropy(f, n, good, Ed25519Sign(hexDecode(good), ED25519_PUBLIC_KEY), o) : o \in Others}

Entropies == UNION {UNION {EntropiesFor(f, n) : n \in -1..MaxIter} : f \in Files}

VerifyInit ==
    /\ entropy \in Entropies
    /\ claimedHash \in {entropy.hash, <<Atom(3)>>,
                        IterDigest(concatenateFileHashes(entropy.files), entropy.hashIterations)}
    /\ vpc = "assert"
    /\ newHash = <<>>
    /\ loopI = 0
    /\ verified = "none"
    /\ digestCalls = 0
    /\ faulted = ""
    /\ prev = <<>>

\* Caught without the catch clause: the fault leaves the function
CaughtRethrown ==
    /\ vpc' = "done"
    /\ verified' = "raised"

\* the catch clause: return false
Caught ==
    /\ vpc' = "done"
    /\ verified' = "false"

\* VAssert that also refuses a record once the clock has moved
VAssertWhileFresh ==
    /\ vpc = "assert"
    /\ IF SignedEntropyStruct(entropy) /\ now = 0
       THEN vpc' = "hash" /\ UNCHANGED verified
       ELSE Caught
    /\ UNCHANGED <<claimedHash, entropy, newHash, loopI, digestCalls, faulted, prev, poolVars, routeVars, valueVars>>

\* assert(entropy, SignedEntropyStruct)
VAssert ==
    /\ vpc = "assert"
    /\ IF SignedEntropyStruct(entropy)
       THEN vpc' = "hash" /\ UNCHANGED verified
       ELSE Caught
    /\ UNCHANGED <<claimedHash, entropy, newHash, loopI, digestCalls, faulted, prev, poolVars, routeVars, valueVars>>

\* VHash without the comparison
VHashNoCompare ==
    /\ vpc = "hash"
    /\ vpc' = "signature"
    /\ UNCHANGED <<claimedHash, entropy, newHash, loopI, digestCalls, faulted, prev, verified, poolVars, routeVars, valueVars>>

\* if (hash !== entropy.hash) return false
VHash ==
    /\ vpc = "hash"
    /\ IF claimedHash # entropy.hash
       THEN vpc' = "done" /\ verified' = "false"
       ELSE vpc' = "signature" /\ UNCHANGED verified
    /\ UNCHANGED <<claimedHash, entropy, newHash, loopI, digestCalls, faulted, prev, poolVars, routeVars, valueVars>>

\* VSignature that goes on to the digest whatever the signature is
VSignatureNotFirst ==
    /\ vpc = "signature"
    /\ vpc' = "concat"
    /\ UNCHANGED <<claimedHash, entropy, newHash, loopI, digestCalls, prev, verified, faulted, poolVars, routeVars, valueVars>>

\* if (!sign.detached.verify(hexDecode(...), hexDecode(...), hexDecode(KEY))) return false
VSignature ==
    /\ vpc = "signature"
    /\ IF ~(HexDecodable(entropy.hash) /\ HexDecodable(entropy.signature))
       THEN Caught /\ faulted' = "hexDecode"
       ELSE /\ UNCHANGED faulted
            /\ IF VerifyDetached(hexDecode(entropy.hash), hexDecode(entropy.signature),
                                 ED25519_PUBLIC_KEY)
               THEN vpc' = "concat" /\ UNCHANGED verified
               ELSE vpc' = "done" /\ verified' = "false"
    /\ UNCHANGED <<claimedHash, entropy, newHash, loopI, digestCalls, prev, poolVars, routeVars, valueVars>>

\* concatenateFileHashes(entropy.files), then genSlowHash: let newHash = hash; i = 0
VConcat ==
    /\ vpc = "concat"
    /\ newHash' = concatenateFileHashes(entropy.files)
    /\ loopI' = 0
    /\ vpc' = "loop"
    /\ UNCHANGED <<claimedHash, entropy, verified, digestCalls, faulted, prev, poolVars, routeVars, valueVars>>

\* i++ on a double: the counter stops growing at 2^53, which MaxRounds stands for
\* (above every count drawn for a call that ends); Infinity is a count above it,
\* as JSON.parse gives for 1e999
MaxRounds == MaxIter + 1
Infinity == MaxRounds + 1
Increment(i) == IF i < MaxRounds THEN i + 1 ELSE i

\* the rounds of digest that made s
RECURSIVE Depth(_)
Depth(s) == IF Len(s) = 1 /\ s[1].k = "sha" THEN 1 + Depth(s[1].p) ELSE 0

\* crypto.subtle.digest over a chain of rounds: collision free for MaxRounds rounds;
\* the range of the digest being finite, a longer chain comes back to a value it had
DigestHex(s) == IF Depth(s) < MaxRounds THEN Sha256Hex(s) ELSE s[1].p

\* VDigest whose loop runs while i <= hashIterations
VDigestInclusive ==
    /\ vpc = "loop"
    /\ loopI <= entropy.hashIterations
    /\ digestCalls' = digestCalls + 1
    /\ \/ /\ newHash' = Sha256Hex(newHash)
          /\ loopI' = loopI + 1
          /\ UNCHANGED <<vpc, verified, faulted>>
       \/ /\ Caught
          /\ faulted' = "digest"
          /\ UNCHANGED <<newHash, loopI>>
    /\ UNCHANGED <<claimedHash, entropy, prev, poolVars, routeVars, valueVars>>

\* genSlowHash: one round of the loop; the digest primitive may reject
VDigest ==
    /\ vpc = "loop"
    /\ loopI < entropy.hashIterations
    /\ digestCalls' = Increment(digestCalls)
    /\ \/ /\ newHash' = DigestHex(newHash)
          /\ loopI' = Increment(loopI)
          /\ UNCHANGED <<vpc, verified, faulted>>
       \/ /\ Caught
          /\ faulted' = "digest"
          /\ UNCHANGED <<newHash, loopI>>
    /\ UNCHANGED <<claimedHash, entropy, prev, poolVars, routeVars, valueVars>>

\* VCompare without the comparison
VCompareNoCompare ==
    /\ vpc = "loop"
    /\ ~(loopI < entropy.hashIterations)
    /\ vpc' = "done"
    /\ verified' = "true"
    /\ UNCHANGED <<claimedHash, entropy, newHash, loopI, digestCalls, faulted, prev, poolVars, routeVars, valueVars>>

\* genSlowHash returns; if (slowHash !== hash) return false; return true
VCompare ==
    /\ vpc = "loop"
    /\ ~(loopI < entropy.hashIterations)
    /\ vpc' = "done"
    /\ verified' = IF newHash # claimedHash THEN "false" ELSE "true"
    /\ UNCHANGED <<claimedHash, entropy, newHash, loopI, digestCalls, faulted, prev, poolVars, routeVars, valueVars>>

\* the records that differ from e in one attribute
Variants(e) ==
    {[e EXCEPT !.files[j].hash = h] : j \in 1..Len(e.files), h \in FileHashes}
    \cup {[e EXCEPT !.signature = sig] : sig \in SignaturesFor(e.hash)}
    \cup {[e EXCEPT !.hash = h] : h \in HashesFor(e.files, e.hashIterations)}
    \cup {[e EXCEPT !.hashIterations = n] : n \in -1..MaxIter}
    \cup {MkEntropy(e.files, e.hashIterations, e.hash, e.signature, o) : o \in Others}

\* the verify routes call the function once per request: a second call, on the same
\* record or, after a call that returned true, on one that differs from it in one
\* attribute
VCall(e, h) ==
    /\ vpc = "done"
    /\ prev = <<>>
    /\ (e = entropy /\ h = claimedHash) \/ verified = "true"
    /\ prev' = <<[entropy |-> entropy, hash |-> claimedHash, verified |-> verified,
                  faulted |-> faulted]>>
    /\ entropy' = e
    /\ claimedHash' = h
    /\ vpc' = "assert"
    /\ newHash' = <<>>
    /\ loopI' = 0
    /\ verified' = "none"
    /\ digestCalls' = 0
    /\ faulted' = ""
    /\ UNCHANGED <<poolVars, routeVars, valueVars>>

\* the file names and hash types a record is redrawn with
FileNames == {"g.json", "undefined"}
FileHashTypes == {"sha1", "undefined"}

\* the records that agree with e on hash, signature, hashIterations and the file
\* hashes in their order, and differ from it in another attribute
OtherFields(e) ==
    ({MkEntropy(e.files, e.hashIterations, e.hash, e.signature, o) : o \in Others}
     \cup {[e EXCEPT !.files[j].name = nm] : j \in 1..Len(e.files), nm \in FileNames}
     \cup {[e EXCEPT !.files[j].hashType = t] : j \in 1..Len(e.files), t \in FileHashTypes})
    \ {e}

\* a second call with the same hash, on a record of OtherFields
VCallOther(e) ==
    /\ vpc = "done"
    /\ prev = <<>>
    /\ e \in OtherFields(entropy)
    /\ prev' = <<[entropy |-> entropy, hash |-> claimedHash, verified |-> verified,
                  faulted |-> faulted]>>
    /\ entropy' = e
    /\ vpc' = "assert"
    /\ newHash' = <<>>
    /\ loopI' = 0
    /\ verified' = "none"
    /\ digestCalls' = 0
    /\ faulted' = ""
    /\ UNCHANGED <<claimedHash, poolVars, routeVars, valueVars>>

VerifyNext ==
    \/ VAssert
    \/ VHash
    \/ VSignature
    \/ VConcat
    \/ VDigest
    \/ VCompare
    \/ \E e \in Variants(entropy) \cup {entropy} : \E h \in {e.hash, claimedHash} : VCall(e, h)

\* no call in progress
VerifyIdle ==
    /\ entropy = MkEntropy(<<>>, 0, <<>>, <<>>, CHOOSE o \in Others : o.unknown # {})
    /\ claimedHash = <<>>
    /\ vpc = "idle"
    /\ newHash = <<>>
    /\ loopI = 0
    /\ verified = "none"
    /\ digestCalls = 0
    /\ faulted = ""
    /\ prev = <<>>

----------------------------------------------------------------------------
(* worktop/kv over the namespace OBSERVABLE_ENTROPY *)

\* a pair is returned and enumerated until the clock reaches its expiration
LiveAt(x, t) == t < x.expiration
Live(x) == LiveAt(x, now)

\* The texts the store and the origin hold: the JSON rendering of an object, the
\* text null, a text that is not JSON, and the empty text.
Nothing == [nothing |-> TRUE]
JSONStringify(v) == [kind |-> "object", value |-> v]
NullText == [kind |-> "null", value |-> Nothing]
NotJSON == [kind |-> "text", value |-> Nothing]
EmptyText == [kind |-> "empty", value |-> Nothing]

\* JSON.parse and Response.json raise SyntaxError on a text that is not JSON
JSONParses(t) == t.kind \in {"object", "null"}

\* Put that drops what the store held
PutAlone(store, k, v, e) == {[key |-> k, value |-> JSONStringify(v), expiration |-> e]}

\* write(): binding.put(key, JSON.stringify(value), {expiration}) replaces the key
Put(store, k, v, e) ==
    {x \in store : x.key # k} \cup {[key |-> k, value |-> JSONStringify(v), expiration |-> e]}

\* read(): the values of the live pairs under the key (none, or one)
Read(k) == {x.value : x \in {y \in kv : y.key = k /\ Live(y)}}

----------------------------------------------------------------------------
(* index.ts: POST /entries *)

Reqs == 1..MaxSubmits

\* Math.random() is drawn as a numerator over RandDenom
RandDenom == 100
RandNums == {0, RandDenom - 1}

\* now advances by TickStep seconds, up to MaxTicks times
TickStep == 1800

\* getNowInUnixSeconds(): floor(Date.now() / 1000), the clock kept in seconds
getNowInUnixSeconds == now

\* getRandomInt with the maximum inclusive
getRandomIntInclusive(min, max, rnd) == ((rnd * (max - min + 1)) \div RandDenom) + min

\* getRandomInt(min, max): Math.floor(Math.random() * (max - min) + min)
getRandomInt(min, max, rnd) == ((rnd * (max - min)) \div RandDenom) + min

\* the arguments of getRandomInt(10, 60) and the factor 60
MinMinutes == 10
MaxMinutes == 60
SecondsPerMinute == 60

\* HashedKey without the suffix
HashedKeyNoSuffix(k) == k

\* EntryKey that does not use the value ulid() minted
EntryKeyFixed(u) == <<Text("entry::"), Tok("ulid", FALSE, 0, <<>>)>>

\* `entry::${ulid()}` and `${key}::hashed`; ulid() is taken to mint a value it has
\* not minted before
EntryKey(u) == <<Text("entry::"), Tok("ulid", FALSE, u, <<>>)>>
HashedKey(k) == k \o <<Text("::"), Text("hashed")>>

\* HashedMessage without the expiration
HashedMessageNoExpiration(k, e, ent) == k \o <<Text("::")>> \o ent

\* digestMessage(`${key}::${expiration}::${entryBody.entropy}`), the digest bytes
digestMessage(message) == Tok("sha", FALSE, 0, message)
HashedMessage(k, e, ent) == k \o <<Text("::"), Num(e), Text("::")>> \o ent

\* worktop/utils toHEX: lower-case hex
toHEX(bytes) == <<Lower(bytes)>>

\* the value written under `${key}::hashed`
HashedEntry(k, e, b) ==
    [entropy |-> toHEX(digestMessage(HashedMessage(k, e, b.entropy))), for |-> k, unknown |-> {}]

\* the request bodies drawn for request r: its caller's own value (every second
\* caller writes it 0x-prefixed in upper case), and the three malformed bodies
Bodies(r) ==
    LET ok == [entropy |-> <<Atom(r)>>, for |-> Undefined, unknown |-> {}]
    IN {IF r % 2 = 0 THEN [ok EXCEPT !.entropy = <<OX, Upper(Atom(r))>>] ELSE ok,
        [ok EXCEPT !.entropy = Undefined],
        [ok EXCEPT !.entropy = <<Junk>>],
        [ok EXCEPT !.unknown = {"extra"}]}

NoBody == [entropy |-> Undefined, for |-> Undefined, unknown |-> {}]

Response(status, k, ent, e) == [status |-> status, key |-> k, entropy |-> ent, expiration |-> e]
Failure(status) == Response(status, <<>>, <<>>, 0)

Send(r, resp) == sent' = [sent EXCEPT ![r] = Append(@, resp)]

\* req.body(), assert(entryBody, EntryStruct), then key, expiration and hashedEntry;
\* requests are numbered in the order they arrive
PostEntries(r, b, rnd) ==
    /\ pc[r] = "start"
    /\ \A q \in Reqs : q < r => pc[q] # "start"
    /\ entryBody' = [entryBody EXCEPT ![r] = b]
    /\ IF EntryStruct(b)
       THEN /\ key' = [key EXCEPT ![r] = EntryKey(nextUlid)]
            /\ nextUlid' = nextUlid + 1
            /\ submitTime' = [submitTime EXCEPT ![r] = getNowInUnixSeconds]
            /\ expiration' = [expiration EXCEPT ![r] =
                   getNowInUnixSeconds + SecondsPerMinute * getRandomInt(MinMinutes, MaxMinutes, rnd)]
            /\ pc' = [pc EXCEPT ![r] = "writeHashed"]
            /\ UNCHANGED sent
       ELSE /\ Send(r, Failure(400))
            /\ pc' = [pc EXCEPT ![r] = "done"]
            /\ UNCHANGED <<key, nextUlid, submitTime, expiration>>
    /\ UNCHANGED <<puts, kv, now, listVars, verifyVars, routeVars, valueVars>>

\* PostWriteHashed without the return after the failed write
PostWriteHashedNoReturn(r, ok) ==
    /\ pc[r] = "writeHashed"
    /\ puts' = [puts EXCEPT ![r] = Append(@, [key |-> HashedKey(key[r]), ok |-> ok])]
    /\ IF ok
       THEN /\ kv' = Put(kv, HashedKey(key[r]),
                         HashedEntry(key[r], expiration[r], entryBody[r]), expiration[r])
            /\ UNCHANGED sent
       ELSE /\ Send(r, Failure(500))
            /\ UNCHANGED kv
    /\ pc' = [pc EXCEPT ![r] = "writeEntry"]
    /\ UNCHANGED <<entryBody, key, expiration, submitTime, nextUlid, now, listVars, verifyVars, routeVars, valueVars>>

\* write(`${key}::hashed`, {entropy: toHEX(hashedEntry), for: key}, {expiration})
PostWriteHashed(r, ok) ==
    /\ pc[r] = "writeHashed"
    /\ puts' = [puts EXCEPT ![r] = Append(@, [key |-> HashedKey(key[r]), ok |-> ok])]
    /\ IF ok
       THEN /\ kv' = Put(kv, HashedKey(key[r]),
                         HashedEntry(key[r], expiration[r], entryBody[r]), expiration[r])
            /\ pc' = [pc EXCEPT ![r] = "writeEntry"]
            /\ UNCHANGED sent
       ELSE /\ Send(r, Failure(500))
            /\ pc' = [pc EXCEPT ![r] = "done"]
            /\ UNCHANGED kv
    /\ UNCHANGED <<entryBody, key, expiration, submitTime, nextUlid, now, listVars, verifyVars, routeVars, valueVars>>

\* PostWriteEntry with an expiration of its own
PostWriteEntryOwnExpiration(r, ok) ==
    /\ pc[r] = "writeEntry"
    /\ puts' = [puts EXCEPT ![r] = Append(@, [key |-> key[r], ok |-> ok])]
    /\ IF ok
       THEN /\ kv' = Put(kv, key[r], entryBody[r], expiration[r] + SecondsPerMinute)
            /\ Send(r, Response(201, key[r], entryBody[r].entropy, expiration[r]))
       ELSE /\ Send(r, Failure(500))
            /\ UNCHANGED kv
    /\ pc' = [pc EXCEPT ![r] = "done"]
    /\ UNCHANGED <<entryBody, key, expiration, submitTime, nextUlid, now, listVars, verifyVars, routeVars, valueVars>>

\* write(key, entryBody, {expiration}), then 201 or 500
PostWriteEntry(r, ok) ==
    /\ pc[r] = "writeEntry"
    /\ puts' = [puts EXCEPT ![r] = Append(@, [key |-> key[r], ok |-> ok])]
    /\ IF ok
       THEN /\ kv' = Put(kv, key[r], entryBody[r], expiration[r])
            /\ Send(r, Response(201, key[r], entryBody[r].entropy, expiration[r]))
       ELSE /\ Send(r, Failure(500))
            /\ UNCHANGED kv
    /\ pc' = [pc EXCEPT ![r] = "done"]
    /\ UNCHANGED <<entryBody, key, expiration, submitTime, nextUlid, now, listVars, verifyVars, routeVars, valueVars>>

----------------------------------------------------------------------------
(* index.ts: GET /entries *)

IsEntryKey(k) == k # <<>> /\ Head(k) = Text("entry::")

\* the store enumerates keys in lexicographic order: by ulid, the plain key first
KeyRank(k) == 2 * k[2].n + (IF Len(k) > 2 THEN 1 ELSE 0)

RECURSIVE SortKeys(_)
SortKeys(S) ==
    IF S = {} THEN <<>>
    ELSE LET k == CHOOSE x \in S : \A y \in S : KeyRank(x) <= KeyRank(y)
         IN <<k>> \o SortKeys(S \ {k})

\* paginate that leaves out the ::hashed keys
paginatePlainKeys == SortKeys({x.key : x \in {y \in kv : Live(y) /\ IsEntryKey(y.key) /\ Len(y.key) = 2}})

\* paginate(OBSERVABLE_ENTROPY, {prefix: 'entry::'})
paginate == SortKeys({x.key : x \in {y \in kv : Live(y) /\ IsEntryKey(y.key)}})

ListEntries ==
    /\ lpc = "start"
    /\ lkeys' = paginate
    /\ kvEntries' = <<>>
    /\ lseen' = {r \in Reqs : \E j \in 1..Len(sent[r]) : sent[r][j].status = 201}
    /\ lpc' = "read"
    /\ UNCHANGED <<lsent, kv, now, postVars, verifyVars, routeVars, valueVars>>

\* ListRead that lets the fault of a value that does not parse reach the outer catch
ListReadRaises ==
    /\ lpc = "read"
    /\ lkeys # <<>>
    /\ LET kvEntry == Read(Head(lkeys))
           present == kvEntry # {} /\ \A t \in kvEntry : t.kind # "empty"
           parsed == present /\ \A t \in kvEntry : JSONParses(t) /\ t.kind = "object"
                                                     /\ EntryStruct(t.value)
       IN IF present /\ ~parsed
          THEN /\ lsent' = Append(lsent, [status |-> 500, body |-> <<>>])
               /\ lpc' = "done"
               /\ UNCHANGED <<kvEntries, lkeys>>
          ELSE /\ kvEntries' = IF parsed
                               THEN Append(kvEntries, (CHOOSE t \in kvEntry : TRUE).value.entropy)
                               ELSE kvEntries
               /\ lkeys' = Tail(lkeys)
               /\ UNCHANGED <<lpc, lsent>>
    /\ UNCHANGED <<lseen, kv, now, postVars, verifyVars, routeVars, valueVars>>

\* one round of the loop: read, skip a missing or empty value, then
\* create(JSON.parse(kvEntry.value), EntryStruct) and skip when it raises
ListRead ==
    /\ lpc = "read"
    /\ lkeys # <<>>
    /\ LET kvEntry == Read(Head(lkeys))
           present == kvEntry # {} /\ \A t \in kvEntry : t.kind # "empty"
           parsed == present /\ \A t \in kvEntry : JSONParses(t) /\ t.kind = "object"
                                                     /\ EntryStruct(t.value)
       IN kvEntries' = IF parsed
                       THEN Append(kvEntries, (CHOOSE t \in kvEntry : TRUE).value.entropy)
                       ELSE kvEntries
    /\ lkeys' = Tail(lkeys)
    /\ UNCHANGED <<lpc, lsent, lseen, kv, now, postVars, verifyVars, routeVars, valueVars>>

\* res.send(200, kvEntries)
ListSend ==
    /\ lpc = "read"
    /\ lkeys = <<>>
    /\ lsent' = Append(lsent, [status |-> 200, body |-> kvEntries])
    /\ lpc' = "done"
    /\ UNCHANGED <<lkeys, kvEntries, lseen, kv, now, postVars, verifyVars, routeVars, valueVars>>

----------------------------------------------------------------------------
(* index.ts: the routes that read the origin *)

LatestKey == <<Text("latest")>>
Commit(n) == Tok("commit", FALSE, n, <<>>)
CommitRoutes == {"commit", "verifyCommit"}
HashRoutes == {"hash", "verifyHash"}
VerifyRoutes == {"verifyCommit", "verifyHash"}
Routes == {"latest"} \cup CommitRoutes \cup HashRoutes

\* the addresses fetch() is called with, under RAW_BASE_URL
LatestUrl == [path |-> "main/entropy.json", arg |-> <<>>]
CommitUrl(id) == [path |-> "{id}/entropy.json", arg |-> id]
IndexUrl(hash) == [path |-> "main/index/by/entropy_hash/{hash}.json", arg |-> hash]

\* what a fetch gives: a Response with its ok flag and body, or a raised fault
OriginResponse(ok, body) == [raised |-> FALSE, ok |-> ok, body |-> body]
FetchRaised == [raised |-> TRUE, ok |-> FALSE, body |-> EmptyText]

\* the records the origin and the cache are drawn to hold: one signed by the
\* repository, and that record tampered with, unsigned, naming its commit id, and
\* with another hashType
Genuine ==
    LET files == <<[hash |-> <<Atom(1)>>, hashType |-> "sha256", name |-> "f.json"]>>
        good == IterDigest(concatenateFileHashes(files), 1)
    IN MkEntropy(files, 1, good, Ed25519Sign(hexDecode(good), ED25519_PUBLIC_KEY), OkOther)
Tampered == [Genuine EXCEPT !.files[1].hash = <<Atom(2)>>]
Unsigned == [Genuine EXCEPT !.signature = Undefined]
WithId == [Genuine EXCEPT !.unknown = {"id"}]
OtherType == [Genuine EXCEPT !.hashType = "sha512"]
OriginRecords == {Genuine, Tampered, Unsigned, WithId, OtherType}

\* what JSON null and the other values that are no record are to the schemas
NullRecord == MkEntropy(<<>>, 0, Undefined, Undefined,
                        [createdAt |-> "undefined", hashType |-> "undefined",
                         prevHash |-> Undefined, unknown |-> {}])
RecordOf(t) == IF t.kind = "object" THEN t.value ELSE NullRecord

EntropyBodies == {JSONStringify(e) : e \in OriginRecords} \cup {NullText, NotJSON}
EntropyResponses ==
    {OriginResponse(TRUE, b) : b \in EntropyBodies}
    \cup {OriginResponse(FALSE, b) : b \in {NotJSON, JSONStringify(OtherType), JSONStringify(Genuine)}}
    \cup {FetchRaised}

IndexEntry(id) == [id |-> id, unknown |-> {}]
IndexBodies ==
    {JSONStringify(IndexEntry(id)) : id \in {<<Commit(1)>>, <<OX, Upper(Commit(1))>>, <<Atom(1)>>, Undefined}}
    \cup {JSONStringify([IndexEntry(<<Commit(1)>>) EXCEPT !.unknown = {"extra"}]), NullText, NotJSON}
IndexResponses ==
    {OriginResponse(TRUE, b) : b \in IndexBodies} \cup {OriginResponse(FALSE, NotJSON), FetchRaised}

\* the path parameters drawn
ParamsOf(rt) ==
    IF rt \in CommitRoutes THEN {<<Commit(1)>>, <<OX, Upper(Commit(1))>>, <<Atom(1)>>, <<Junk>>}
    ELSE IF rt \in HashRoutes THEN {Genuine.hash, <<OX>> \o UpperStr(Genuine.hash), <<Commit(1)>>, <<Junk>>}
    ELSE {<<>>}

\* 'latest' is written from outside the worker, without an expiration
Never == MaxTicks * TickStep + 1
LatestStores ==
    {{}} \cup {{[key |-> LatestKey, value |-> t, expiration |-> Never]} :
                   t \in {JSONStringify(Genuine), JSONStringify(OtherType), NullText, NotJSON, EmptyText}}

\* the bodies of the responses
Found(e) == [status |-> 200, body |-> e]
Verified(e) == [status |-> 200, body |-> [verified |-> TRUE, entropy |-> e]]
Problem(status) == [status |-> status, body |-> Nothing]

\* the catch clause of a handler: 400 for a StructError, 500 for another Error
CatchSend(err) == IF err = "StructError" THEN Problem(400) ELSE Problem(500)

\* create(JSON.parse(text), EntropyStruct): the fault it raises, "" when none
CreateFault(t) ==
    IF ~JSONParses(t) THEN "SyntaxError"
    ELSE IF t.kind = "object" /\ EntropyStruct(t.value) THEN ""
    ELSE "StructError"

RouteIdle ==
    /\ route = "idle"
    /\ param = <<>>
    /\ rpc = "idle"
    /\ kvLatest = {}
    /\ respJsonId = <<>>
    /\ entropyResp = {}
    /\ fetches = <<>>
    /\ rsent = <<>>

\* one request has arrived
RouteInit ==
    /\ route \in Routes
    /\ param \in ParamsOf(route)
    /\ rpc = "start"
    /\ kvLatest = {}
    /\ respJsonId = <<>>
    /\ entropyResp = {}
    /\ fetches = <<>>
    /\ rsent = <<>>

\* GET /latest: const kvLatest = await read(OBSERVABLE_ENTROPY, 'latest', ..)
LatestRead ==
    /\ route = "latest"
    /\ rpc = "start"
    /\ kvLatest' = Read(LatestKey)
    /\ rpc' = "cache"
    /\ UNCHANGED <<route, param, respJsonId, entropyResp, fetches, rsent, poolVars, verifyVars, valueVars>>

\* GET /latest: if (kvLatest && kvLatest.value) { create(JSON.parse(..)); res.send(200, ..) }
\* and the handler goes on to the fetch
LatestCache ==
    /\ route = "latest"
    /\ rpc = "cache"
    /\ IF kvLatest # {} /\ \A t \in kvLatest : t.kind # "empty"
       THEN LET t == CHOOSE t \in kvLatest : TRUE
            IN IF CreateFault(t) # ""
               THEN /\ rsent' = Append(rsent, CatchSend(CreateFault(t)))
                    /\ rpc' = "done"
               ELSE /\ rsent' = Append(rsent, Found(t.value))
                    /\ rpc' = "fetch"
       ELSE /\ rpc' = "fetch"
            /\ UNCHANGED rsent
    /\ UNCHANGED <<route, param, kvLatest, respJsonId, entropyResp, fetches, poolVars, verifyVars, valueVars>>

\* fetchLatestEntropy(): fetch(`${RAW_BASE_URL}/main/entropy.json`)
fetchLatestEntropy(resp) ==
    /\ route = "latest"
    /\ rpc = "fetch"
    /\ fetches' = Append(fetches, [to |-> LatestUrl, got |-> resp])
    /\ IF resp.raised
       THEN /\ rsent' = Append(rsent, CatchSend("TypeError"))
            /\ rpc' = "done"
            /\ UNCHANGED entropyResp
       ELSE /\ entropyResp' = {resp}
            /\ rpc' = "answer"
            /\ UNCHANGED rsent
    /\ UNCHANGED <<route, param, kvLatest, respJsonId, poolVars, verifyVars, valueVars>>

\* GET /latest: if (!entropyResp.ok) res.send(404, ..), and then, in either case,
\* create(await entropyResp.json(), EntropyStruct) and res.send(200, entropy)
LatestAnswer ==
    /\ route = "latest"
    /\ rpc = "answer"
    /\ LET resp == CHOOSE x \in entropyResp : TRUE
           first == IF resp.ok THEN <<>> ELSE <<Problem(404)>>
           second == IF CreateFault(resp.body) # "" THEN CatchSend(CreateFault(resp.body))
                     ELSE Found(resp.body.value)
       IN rsent' = (rsent \o first) \o <<second>>
    /\ rpc' = "done"
    /\ UNCHANGED <<route, param, kvLatest, respJsonId, entropyResp, fetches, poolVars, verifyVars, valueVars>>

\* the four routes with a path parameter: if (!SHA1_REGEX.test(id)) return res.send(400, ..)
\* and if (!SHA256_REGEX.test(hash)) return res.send(400, ..)
CheckParam ==
    /\ route \in CommitRoutes \cup HashRoutes
    /\ rpc = "start"
    /\ IF (route \in CommitRoutes /\ ~SHA1_REGEX(param)) \/ (route \in HashRoutes /\ ~SHA256_REGEX(param))
       THEN /\ rsent' = Append(rsent, Problem(400))
            /\ rpc' = "done"
       ELSE /\ rpc' = IF route \in HashRoutes THEN "index" ELSE "fetch"
            /\ UNCHANGED rsent
    /\ UNCHANGED <<route, param, kvLatest, respJsonId, entropyResp, fetches, poolVars, verifyVars, valueVars>>

\* fetchEntropyByEntropyHash that raises whatever the index answered
fetchEntropyByEntropyHashRaises(resp) ==
    /\ route \in HashRoutes
    /\ rpc = "index"
    /\ fetches' = Append(fetches, [to |-> IndexUrl(param), got |-> resp])
    /\ rsent' = Append(rsent, CatchSend("Error"))
    /\ rpc' = "done"
    /\ UNCHANGED <<route, param, kvLatest, respJsonId, entropyResp, poolVars, verifyVars, valueVars>>

\* fetchEntropyByEntropyHash without the assert on the id it read
fetchEntropyByEntropyHashNoAssert(resp) ==
    /\ route \in HashRoutes
    /\ rpc = "index"
    /\ fetches' = Append(fetches, [to |-> IndexUrl(param), got |-> resp])
    /\ IF resp.raised \/ (resp.ok /\ ~JSONParses(resp.body))
       THEN /\ rsent' = Append(rsent, CatchSend("Error"))
            /\ rpc' = "done"
            /\ UNCHANGED <<respJsonId, entropyResp>>
       ELSE IF resp.ok
       THEN /\ respJsonId' = IF resp.body.kind = "object" THEN resp.body.value.id ELSE Undefined
            /\ rpc' = "fetch"
            /\ UNCHANGED <<rsent, entropyResp>>
       ELSE /\ entropyResp' = {resp}
            /\ rpc' = "answer"
            /\ UNCHANGED <<rsent, respJsonId>>
    /\ UNCHANGED <<route, param, kvLatest, poolVars, verifyVars, valueVars>>

\* fetchEntropyByEntropyHash(hash): the fetch of the index entry, and when it is ok
\* respHash.json() and assert(respJsonId, object({id: sha1Hash()})); else return respHash
fetchEntropyByEntropyHash(resp) ==
    /\ route \in HashRoutes
    /\ rpc = "index"
    /\ fetches' = Append(fetches, [to |-> IndexUrl(param), got |-> resp])
    /\ IF resp.raised \/ (resp.ok /\ ~JSONParses(resp.body))
       THEN /\ rsent' = Append(rsent, CatchSend("Error"))
            /\ rpc' = "done"
            /\ UNCHANGED <<respJsonId, entropyResp>>
       ELSE IF resp.ok /\ ~(/\ resp.body.kind = "object"
                            /\ sha1Hash(resp.body.value.id)
                            /\ resp.body.value.unknown = {})
       THEN /\ rsent' = Append(rsent, CatchSend("StructError"))
            /\ rpc' = "done"
            /\ UNCHANGED <<respJsonId, entropyResp>>
       ELSE IF resp.ok
       THEN /\ respJsonId' = resp.body.value.id
            /\ rpc' = "fetch"
            /\ UNCHANGED <<rsent, entropyResp>>
       ELSE /\ entropyResp' = {resp}
            /\ rpc' = "answer"
            /\ UNCHANGED <<rsent, respJsonId>>
    /\ UNCHANGED <<route, param, kvLatest, poolVars, verifyVars, valueVars>>

\* fetchEntropyByGitCommitId(id): fetch(`${RAW_BASE_URL}/${id}/entropy.json`), with
\* req.params.id in the commit routes and respJsonId.id in the hash routes
fetchEntropyByGitCommitId(resp) ==
    /\ route \in CommitRoutes \cup HashRoutes
    /\ rpc = "fetch"
    /\ fetches' = Append(fetches, [to |-> CommitUrl(IF route \in CommitRoutes THEN param ELSE respJsonId),
                                   got |-> resp])
    /\ IF resp.raised
       THEN /\ rsent' = Append(rsent, CatchSend("TypeError"))
            /\ rpc' = "done"
            /\ UNCHANGED entropyResp
       ELSE /\ entropyResp' = {resp}
            /\ rpc' = "answer"
            /\ UNCHANGED rsent
    /\ UNCHANGED <<route, param, kvLatest, respJsonId, poolVars, verifyVars, valueVars>>

\* RetrieveAnswer without the schema
RetrieveAnswerNoSchema ==
    /\ route \in {"commit", "hash"}
    /\ rpc = "answer"
    /\ LET resp == CHOOSE x \in entropyResp : TRUE
       IN rsent' = Append(rsent, IF ~resp.ok THEN Problem(404)
                                 ELSE IF ~JSONParses(resp.body) THEN CatchSend("SyntaxError")
                                 ELSE Found(RecordOf(resp.body)))
    /\ rpc' = "done"
    /\ UNCHANGED <<route, param, kvLatest, respJsonId, entropyResp, fetches, poolVars, verifyVars, valueVars>>

\* RetrieveAnswer that returns the record only when its file hashes digest to its hash
RetrieveAnswerDigestChecked ==
    /\ route \in {"commit", "hash"}
    /\ rpc = "answer"
    /\ LET resp == CHOOSE x \in entropyResp : TRUE
       IN rsent' = Append(rsent, IF ~resp.ok THEN Problem(404)
                                 ELSE IF CreateFault(resp.body) # "" THEN CatchSend(CreateFault(resp.body))
                                 ELSE IF IterDigest(concatenateFileHashes(resp.body.value.files),
                                                    resp.body.value.hashIterations) # resp.body.value.hash
                                 THEN Problem(406)
                                 ELSE Found(resp.body.value))
    /\ rpc' = "done"
    /\ UNCHANGED <<route, param, kvLatest, respJsonId, entropyResp, fetches, poolVars, verifyVars, valueVars>>

\* GET /commit/:id and GET /hash/:hash: if (entropyResp.ok) { create(await
\* entropyResp.json(), EntropyStruct); res.send(200, entropy) } else res.send(404, ..)
RetrieveAnswer ==
    /\ route \in {"commit", "hash"}
    /\ rpc = "answer"
    /\ LET resp == CHOOSE x \in entropyResp : TRUE
       IN rsent' = Append(rsent, IF ~resp.ok THEN Problem(404)
                                 ELSE IF CreateFault(resp.body) # "" THEN CatchSend(CreateFault(resp.body))
                                 ELSE Found(resp.body.value))
    /\ rpc' = "done"
    /\ UNCHANGED <<route, param, kvLatest, respJsonId, entropyResp, fetches, poolVars, verifyVars, valueVars>>

\* the verify routes: if (entropyResp.ok) { const entropy = await entropyResp.json()
\* and the call hasValidEntropySignature(entropy.hash, entropy), or (hash, entropy) }
\* else res.send(404, ..); entropy.hash raises on null
VerifyJson ==
    /\ route \in VerifyRoutes
    /\ rpc = "answer"
    /\ LET resp == CHOOSE x \in entropyResp : TRUE
       IN IF ~resp.ok \/ ~JSONParses(resp.body) \/ (route = "verifyCommit" /\ resp.body.kind = "null")
          THEN /\ rsent' = Append(rsent, IF ~resp.ok THEN Problem(404) ELSE CatchSend("Error"))
               /\ rpc' = "done"
               /\ UNCHANGED verifyVars
          ELSE /\ entropy' = RecordOf(resp.body)
               /\ claimedHash' = IF route = "verifyCommit" THEN RecordOf(resp.body).hash ELSE param
               /\ vpc' = "assert"
               /\ rpc' = "verify"
               /\ UNCHANGED <<newHash, loopI, verified, digestCalls, faulted, prev, rsent>>
    /\ UNCHANGED <<route, param, kvLatest, respJsonId, entropyResp, fetches, poolVars, valueVars>>

\* VerifyAnswer that answers 200 whatever the function returned
VerifyAnswerAlways ==
    /\ route \in VerifyRoutes
    /\ rpc = "verify"
    /\ vpc = "done"
    /\ rsent' = Append(rsent, Verified(entropy))
    /\ rpc' = "done"
    /\ UNCHANGED <<route, param, kvLatest, respJsonId, entropyResp, fetches, poolVars, verifyVars, valueVars>>

\* the verify routes: if (verified) res.send(200, {verified: true, entropy}) else res.send(406, ..)
VerifyAnswer ==
    /\ route \in VerifyRoutes
    /\ rpc = "verify"
    /\ vpc = "done"
    /\ rsent' = Append(rsent, IF verified = "true" THEN Verified(entropy) ELSE Problem(406))
    /\ rpc' = "done"
    /\ UNCHANGED <<route, param, kvLatest, respJsonId, entropyResp, fetches, poolVars, verifyVars, valueVars>>

----------------------------------------------------------------------------
(* The clock *)

Tick ==
    /\ now + TickStep <= MaxTicks * TickStep
    /\ now' = now + TickStep
    /\ UNCHANGED <<kv, postVars, listVars, verifyVars, routeVars, valueVars>>

----------------------------------------------------------------------------
(* Specifications *)

\* no request has arrived and the clock is at its start
PoolStart ==
    /\ now = 0
    /\ nextUlid = 1
    /\ pc = [r \in Reqs |-> "start"]
    /\ entryBody = [r \in Reqs |-> NoBody]
    /\ key = [r \in Reqs |-> <<>>]
    /\ expiration = [r \in Reqs |-> 0]
    /\ submitTime = [r \in Reqs |-> 0]
    /\ sent = [r \in Reqs |-> <<>>]
    /\ puts = [r \in Reqs |-> <<>>]
    /\ lpc = "start"
    /\ lkeys = <<>>
    /\ kvEntries = <<>>
    /\ lsent = <<>>
    /\ lseen = {}

\* the namespace is empty
PoolInit ==
    /\ kv = {}
    /\ PoolStart

Init == PoolInit /\ VerifyIdle /\ RouteIdle /\ ValueIdle

Next ==
    \/ \E r \in Reqs, rnd \in RandNums : \E b \in Bodies(r) : PostEntries(r, b, rnd)
    \/ \E r \in Reqs, ok \in BOOLEAN : PostWriteHashed(r, ok)
    \/ \E r \in Reqs, ok \in BOOLEAN : PostWriteEntry(r, ok)
    \/ ListEntries
    \/ ListRead
    \/ ListSend
    \/ Tick

Spec == Init /\ [][Next]_vars

\* The namespace as a listing may find it: the pair of one submission, one more key
\* under the prefix whose text was written from outside the worker (the namespace is
\* also written through the store's own API, as 'latest' is), and 'latest'.
ListTexts ==
    {JSONStringify([entropy |-> <<OX, Upper(Atom(2))>>, for |-> Undefined, unknown |-> {}]),
     JSONStringify([entropy |-> <<Junk>>, for |-> Undefined, unknown |-> {}]),
     JSONStringify([entropy |-> <<Atom(2)>>, for |-> Undefined, unknown |-> {"extra"}]),
     NullText, NotJSON, EmptyText}
ListExpirations == {MinMinutes * SecondsPerMinute, (MaxMinutes - 1) * SecondsPerMinute}
ListStores ==
    {Put(Put({[key |-> EntryKey(2), value |-> t, expiration |-> e2]} \cup other,
             HashedKey(EntryKey(1)),
             HashedEntry(EntryKey(1), e1, [entropy |-> <<Atom(1)>>, for |-> Undefined, unknown |-> {}]),
             e1),
         EntryKey(1), [entropy |-> <<Atom(1)>>, for |-> Undefined, unknown |-> {}], e1) :
       e1 \in ListExpirations, e2 \in ListExpirations, t \in ListTexts,
       other \in {{}, {[key |-> LatestKey, value |-> NotJSON, expiration |-> Never]}}}

ListSpecInit ==
    /\ ValueIdle
    /\ kv \in ListStores
    /\ PoolStart
    /\ VerifyIdle
    /\ RouteIdle

ListNext ==
    \/ ListEntries
    \/ ListRead
    \/ ListSend
    \/ Tick

\* one GET /entries over a drawn namespace
ListSpec == ListSpecInit /\ [][ListNext]_vars

\* one request to a route that reads the origin, the cache holding a drawn text
RouteSpecInit ==
    /\ ValueIdle
    /\ kv \in LatestStores
    /\ PoolStart
    /\ VerifyIdle
    /\ RouteInit

RouteNext ==
    \/ LatestRead
    \/ LatestCache
    \/ \E resp \in EntropyResponses : fetchLatestEntropy(resp)
    \/ LatestAnswer
    \/ CheckParam
    \/ \E resp \in IndexResponses : fetchEntropyByEntropyHash(resp)
    \/ \E resp \in EntropyResponses : fetchEntropyByGitCommitId(resp)
    \/ RetrieveAnswer
    \/ VerifyJson
    \/ VAssert
    \/ VHash
    \/ VSignature
    \/ VConcat
    \/ VDigest
    \/ VCompare
    \/ VerifyAnswer

RouteSpec == RouteSpecInit /\ [][RouteNext]_vars

\* The whole worker: submissions and a listing, with one request to a route that
\* reads the origin in flight and 'latest' in the cache.  The request carries a
\* well-formed parameter and the origin answers it with the signed record or with not
\* found; the submissions (one fewer than under Spec) carry their caller's value and
\* draw the shortest expiration.
WorkerReqs == {r \in Reqs : r < MaxSubmits}

WorkerInit ==
    /\ ValueIdle
    /\ kv = {[key |-> LatestKey, value |-> JSONStringify(Genuine), expiration |-> Never]}
    /\ PoolStart
    /\ VerifyIdle
    /\ RouteInit
    /\ param = IF route \in CommitRoutes THEN <<Commit(1)>>
               ELSE IF route \in HashRoutes THEN Genuine.hash
               ELSE <<>>

WorkerResponses == {OriginResponse(TRUE, JSONStringify(Genuine)), OriginResponse(FALSE, NotJSON)}
WorkerIndexResponses ==
    {OriginResponse(TRUE, JSONStringify(IndexEntry(<<Commit(1)>>))), OriginResponse(FALSE, NotJSON)}

WorkerNext ==
    \/ \E r \in WorkerReqs : \E b \in {c \in Bodies(r) : EntryStruct(c)} : PostEntries(r, b, 0)
    \/ \E r \in WorkerReqs, ok \in BOOLEAN : PostWriteHashed(r, ok)
    \/ \E r \in WorkerReqs, ok \in BOOLEAN : PostWriteEntry(r, ok)
    \/ ListEntries
    \/ ListRead
    \/ ListSend
    \/ Tick
    \/ LatestRead
    \/ LatestCache
    \/ \E resp \in WorkerResponses : fetchLatestEntropy(resp)
    \/ LatestAnswer
    \/ CheckParam
    \/ \E resp \in WorkerIndexResponses : fetchEntropyByEntropyHash(resp)
    \/ \E resp \in WorkerResponses : fetchEntropyByGitCommitId(resp)
    \/ RetrieveAnswer
    \/ VerifyJson
    \/ VAssert
    \/ VHash
    \/ VSignature
    \/ VConcat
    \/ VDigest
    \/ VCompare
    \/ VerifyAnswer

WorkerSpec == WorkerInit /\ [][WorkerNext]_vars

\* one call of hasValidEntropySignature on a drawn record
VerifySpecInit == PoolInit /\ VerifyInit /\ RouteIdle /\ ValueIdle
VerifySpec == VerifySpecInit /\ [][VerifyNext]_vars

\* One request to a route that reads the origin, run to its end: a handler that can
\* take a step takes one.  The origin may also answer with the signed record whose
\* hashIterations was replaced by 1e999.
Endless == [Genuine EXCEPT !.hashIterations = Infinity]
AnswerResponses == EntropyResponses \cup {OriginResponse(TRUE, JSONStringify(Endless))}

AnswerNext ==
    \/ LatestRead
    \/ LatestCache
    \/ \E resp \in AnswerResponses : fetchLatestEntropy(resp)
    \/ LatestAnswer
    \/ CheckParam
    \/ \E resp \in IndexResponses : fetchEntropyByEntropyHash(resp)
    \/ \E resp \in AnswerResponses : fetchEntropyByGitCommitId(resp)
    \/ RetrieveAnswer
    \/ VerifyJson
    \/ VAssert
    \/ VHash
    \/ VSignature
    \/ VConcat
    \/ VDigest
    \/ VCompare
    \/ VerifyAnswer

AnswerSpec == RouteSpecInit /\ [][AnswerNext]_vars /\ WF_vars(AnswerNext)

\* one value handed to sha256Hash(), as drawn or with one character changed
ValueSpecInit == PoolInit /\ VerifyIdle /\ RouteIdle /\ ValueInit

ValueNext ==
    \/ \E i \in 1..Len(value.chars) : RemoveChar(i)
    \/ \E i \in 1..Len(value.chars), c \in NewChars : ReplaceChar(i, c)
    \/ \E c \in NewChars : AppendChar(c)

ValueSpec == ValueSpecInit /\ [][ValueNext]_vars

\* two calls of hasValidEntropySignature on the same record with the same hash, while
\* submissions, a listing and the clock go on
RepeatInit ==
    /\ ValueIdle
    /\ PoolInit
    /\ RouteIdle
    /\ VerifyInit
    /\ entropy \in OriginRecords
    /\ claimedHash \in {entropy.hash, <<Atom(3)>>}

RepeatNext ==
    \/ VAssert
    \/ VHash
    \/ VSignature
    \/ VConcat
    \/ VDigest
    \/ VCompare
    \/ VCall(entropy, claimedHash)
    \/ \E r \in WorkerReqs : \E b \in {c \in Bodies(r) : EntryStruct(c)} : PostEntries(r, b, 0)
    \/ \E r \in WorkerReqs, ok \in BOOLEAN : PostWriteHashed(r, ok)
    \/ \E r \in WorkerReqs, ok \in BOOLEAN : PostWriteEntry(r, ok)
    \/ ListEntries
    \/ ListRead
    \/ ListSend
    \/ Tick

RepeatSpec == RepeatInit /\ [][RepeatNext]_vars

\* two calls of hasValidEntropySignature with the same hash, on a drawn record and
\* on a record that differs from it outside the signed attributes
OtherFieldsNext ==
    \/ VAssert
    \/ VHash
    \/ VSignature
    \/ VConcat
    \/ VDigest
    \/ VCompare
    \/ \E e \in OtherFields(entropy) : VCallOther(e)

OtherFieldsSpec == VerifySpecInit /\ [][OtherFieldsNext]_vars

----------------------------------------------------------------------------
(* Properties of hasValidEntropySignature, under VerifySpec *)

SignatureVerifies(e) ==
    /\ HexDecodable(e.hash)
    /\ HexDecodable(e.signature)
    /\ VerifyDetached(hexDecode(e.hash), hexDecode(e.signature), ED25519_PUBLIC_KEY)

FourConditions(h, e) ==
    /\ SignedEntropyStruct(e)
    /\ h = e.hash
    /\ SignatureVerifies(e)
    /\ IterDigest(concatenateFileHashes(e.files), e.hashIterations) = h

\* C1: a call in which the digest primitive did not fault returns true exactly when
\* the record satisfies the SignedEntropy schema, the claimed hash equals record.hash,
\* the signature verifies over the bytes of record.hash under the fixed key, and the
\* iterated digest of the concatenated file hashes equals the claimed hash; in every
\* other case it returns false.
C1_TrueIffFourConditions ==
    (vpc = "done" /\ faulted # "digest") =>
        /\ verified \in {"true", "false"}
        /\ (verified = "true") <=> FourConditions(claimedHash, entropy)

C1_Witness ==
    /\ vpc = "done"
    /\ verified = "true"
    /\ digestCalls >= 1
    /\ Len(entropy.files) >= 1

SameButFileHash(r, e) ==
    /\ Len(e.files) = Len(r.files)
    /\ \E j \in 1..Len(r.files) :
          /\ e.files[j].hash # r.files[j].hash
          /\ e = [r EXCEPT !.files[j].hash = e.files[j].hash]

SameButSignature(r, e) == e.signature # r.signature /\ e = [r EXCEPT !.signature = e.signature]

SameButHash(r, e) == e.hash # r.hash /\ e = [r EXCEPT !.hash = e.hash]

\* the call before this one returned true for verify(r.hash, r), and no digest faulted
AfterTrueCall ==
    /\ vpc = "done"
    /\ prev # <<>>
    /\ prev[1].verified = "true"
    /\ prev[1].hash = prev[1].entropy.hash
    /\ faulted # "digest"

\* C2 as written: after verify(r.hash, r) returned true, a record that differs from r
\* in one files[i].hash, in the signature or in the hash makes verify return false.
C2_AnyChangeFails ==
    (/\ AfterTrueCall
     /\ \/ SameButFileHash(prev[1].entropy, entropy)
        \/ SameButSignature(prev[1].entropy, entropy)
        \/ SameButHash(prev[1].entropy, entropy))
    => verified = "false"

\* C2 amended: after verify(r.hash, r) returned true, a record that differs from r in
\* one files[i].hash or in the hash makes verify return false; so does one that differs
\* in the signature, unless the new signature still decodes to one that verifies over
\* the bytes of r.hash (the same signature in another letter case), and then verify
\* returns what it returned for r.
C2_ChangeFailsUnlessSameSignatureBytes ==
    /\ (/\ AfterTrueCall
        /\ \/ SameButFileHash(prev[1].entropy, entropy)
           \/ SameButHash(prev[1].entropy, entropy)
           \/ SameButSignature(prev[1].entropy, entropy) /\ ~SignatureVerifies(entropy))
       => verified = "false"
    /\ (/\ AfterTrueCall
        /\ claimedHash = entropy.hash
        /\ SameButSignature(prev[1].entropy, entropy)
        /\ SignatureVerifies(entropy))
       => verified = "true"

C2_Witness ==
    /\ AfterTrueCall
    /\ SameButFileHash(prev[1].entropy, entropy)
    /\ digestCalls >= 1
    /\ verified = "false"

----------------------------------------------------------------------------
(* Properties of the contribution pool, under Spec *)

HasKey(k) == \E x \in kv : x.key = k
StatusOf(r) == [j \in 1..Len(sent[r]) |-> sent[r][j].status]
Range(f) == {f[j] : j \in DOMAIN f}

\* C4: the real entry is written only after the write of the shadow entry reported
\* success; when the shadow write fails the answer is a server failure and the real
\* write is never attempted.
C4_ShadowBeforeReal ==
    \A r \in Reqs :
        /\ \A j \in 1..Len(puts[r]) :
              puts[r][j].key = key[r] =>
                  \E i \in 1..(j - 1) : puts[r][i].key = key[r] \o <<Text("::"), Text("hashed")>>
                                         /\ puts[r][i].ok
        /\ (\E i \in 1..Len(puts[r]) : ~puts[r][i].ok /\ Len(puts[r][i].key) > 2) =>
              /\ StatusOf(r) = <<500>>
              /\ Len(puts[r]) = 1
              /\ ~HasKey(key[r])

C4_Witness ==
    \E r, q \in Reqs :
        /\ Len(puts[r]) = 2 /\ puts[r][1].ok /\ puts[r][2].key = key[r]
        /\ pc[q] = "done" /\ Len(puts[q]) = 1 /\ ~puts[q][1].ok

\* C5: every stored real entry entry::<key> has exactly one shadow companion
\* entry::<key>::hashed stored, with the same expiration.
C5_RealHasShadow ==
    \A x \in kv :
        Len(x.key) = 2 =>
            /\ Cardinality({y \in kv : y.key = x.key \o <<Text("::"), Text("hashed")>>}) = 1
            /\ \A y \in kv : y.key = x.key \o <<Text("::"), Text("hashed")>> =>
                                 y.expiration = x.expiration

C5_Witness ==
    \E r, q \in Reqs :
        /\ HasKey(key[r]) /\ Len(key[r]) = 2
        /\ HasKey(HashedKey(key[r]))
        /\ pc[q] = "done" /\ StatusOf(q) = <<500>> /\ Len(puts[q]) = 2

StorageFailed(r) == pc[r] = "done" /\ puts[r] # <<>> /\ 500 \in Range(StatusOf(r))

\* C6 as written: after a submission that ends in a storage failure the store
\* contains neither the real entry nor the shadow entry of that submission.
C6_FailureLeavesNothing ==
    \A r \in Reqs :
        StorageFailed(r) => ~HasKey(key[r]) /\ ~HasKey(HashedKey(key[r]))

\* C6 amended: after a submission that ends in a storage failure the store never
\* contains the real entry of that submission; it contains the shadow entry exactly
\* when the shadow write had succeeded and the real write failed.
C6_FailureLeavesNoRealEntry ==
    \A r \in Reqs :
        StorageFailed(r) =>
            /\ ~HasKey(key[r])
            /\ HasKey(HashedKey(key[r])) <=> puts[r][1].ok

C6_Witness ==
    \E r \in Reqs :
        /\ StorageFailed(r)
        /\ Len(puts[r]) = 2
        /\ HasKey(HashedKey(key[r]))
        /\ ~HasKey(key[r])

Malformed(b) == b.entropy \in {Undefined, <<Junk>>} \/ b.unknown # {}

\* C7: a submission whose body fails EntryStruct validation (missing entropy, entropy
\* not SHA-256 hex, unknown attribute) attempts no write, is answered 400 and leaves
\* the store as it was: every stored key belongs to a submission with a valid body.
C7_BadBodyWritesNothing ==
    /\ \A r \in Reqs :
          (pc[r] # "start" /\ Malformed(entryBody[r])) =>
              /\ pc[r] = "done"
              /\ puts[r] = <<>>
              /\ StatusOf(r) = <<400>>
              /\ key[r] = <<>>
    /\ \A x \in kv : \E r \in Reqs :
          /\ ~Malformed(entryBody[r])
          /\ pc[r] # "start"
          /\ x.key \in {key[r], HashedKey(key[r])}

C7_Witness ==
    \E r, q \in Reqs :
        /\ pc[r] = "done" /\ entryBody[r].unknown # {} /\ StatusOf(r) = <<400>>
        /\ pc[q] = "done" /\ StatusOf(q) = <<201>>

\* C8: the expiration of a submission, which both of its entries are stored with,
\* satisfies submitTime + 600 <= expiration < submitTime + 3600.
C8_ExpirationWindow ==
    \A r \in Reqs :
        key[r] # <<>> =>
            /\ submitTime[r] + 600 <= expiration[r]
            /\ expiration[r] < submitTime[r] + 3600
            /\ \A x \in kv : x.key \in {key[r], HashedKey(key[r])} => x.expiration = expiration[r]

C8_Witness ==
    \E r \in Reqs :
        /\ submitTime[r] > 0
        /\ expiration[r] = submitTime[r] + 3540
        /\ HasKey(key[r])

\* C9: the shadow entry stored at K::hashed has entropy equal to the hex SHA-256 of
\* K + "::" + expiration + "::" + submittedEntropy and for = K, with the expiration
\* both writes use; the value differs from the submitted entropy.
C9_ShadowValue ==
    \A r \in Reqs : \A x \in kv :
        (key[r] # <<>> /\ x.key = HashedKey(key[r])) =>
            /\ x.value.kind = "object"
            /\ x.value.value.entropy =
                  Sha256Hex(key[r] \o <<Text("::"), Num(expiration[r]), Text("::")>>
                            \o entryBody[r].entropy)
            /\ x.value.value.for = key[r]
            /\ x.expiration = expiration[r]
            /\ x.value.value.entropy # entryBody[r].entropy
            /\ Head(key[r]) = Text("entry::")

C9_Witness ==
    \E r \in Reqs : \E x \in kv :
        /\ x.key = HashedKey(key[r])
        /\ Head(entryBody[r].entropy) = OX
        /\ expiration[r] > 3600

ShadowOf(r) ==
    Sha256Hex(key[r] \o <<Text("::"), Num(expiration[r]), Text("::")>> \o entryBody[r].entropy)

\* C10: a submission is answered 201 (with its entry:: key, the submitted entropy and
\* an expiration after the submit time) only after both writes succeeded, and a
\* listing that began after that answer and was answered before the expiration
\* includes the submitted entropy and the shadow value of that submission.
C10_SuccessThenListed ==
    \A r \in Reqs :
        /\ 201 \in Range(StatusOf(r)) =>
              /\ Len(puts[r]) = 2 /\ puts[r][1].ok /\ puts[r][2].ok
              /\ sent[r] = <<Response(201, key[r], entryBody[r].entropy, expiration[r])>>
              /\ Head(key[r]) = Text("entry::")
              /\ expiration[r] > submitTime[r]
        /\ (lpc = "done" /\ lsent[1].status = 200 /\ r \in lseen /\ now < expiration[r]) =>
              /\ entryBody[r].entropy \in Range(lsent[1].body)
              /\ ShadowOf(r) \in Range(lsent[1].body)

C10_Witness ==
    \E r \in Reqs :
        /\ lpc = "done"
        /\ r \in lseen
        /\ now > 0
        /\ now < expiration[r]
        /\ Len(lsent[1].body) = 2

\* C11 as written: no listing returns the entropy value of a real entry without also
\* returning the entropy value of that entry's shadow companion, under any
\* interleaving with submissions in flight and with expiry enforced by the store.
C11_RealNeverListedAlone ==
    \A r \in Reqs :
        (/\ lpc = "done"
         /\ key[r] # <<>>
         /\ entryBody[r].entropy \in Range(lsent[1].body))
        => ShadowOf(r) \in Range(lsent[1].body)

\* the keys the writes of submission r were aimed at
Written(r) == {puts[r][j].key : j \in 1..Len(puts[r])}

\* C13: two submissions write to disjoint keys: each writes only to its own key K
\* and to K::hashed, no key is written by two submissions, and every write that
\* succeeded is in the store as it was written, whatever the other submission did.
C13_DisjointKeys ==
    /\ \A r, q \in Reqs : r # q => Written(r) \cap Written(q) = {}
    /\ \A r \in Reqs :
          /\ Written(r) \subseteq {key[r], key[r] \o <<Text("::"), Text("hashed")>>}
          /\ Len(puts[r]) <= 2
          /\ \A j \in 1..Len(puts[r]) :
                puts[r][j].ok =>
                    /\ Cardinality({x \in kv : x.key = puts[r][j].key}) = 1
                    /\ \A x \in kv :
                          x.key = puts[r][j].key =>
                              /\ x.expiration = expiration[r]
                              /\ x.value.kind = "object"
                              /\ IF Len(x.key) = 2
                                 THEN x.value.value = entryBody[r]
                                 ELSE x.value.value.for = key[r]

C13_Witness ==
    /\ \A r \in Reqs : pc[r] = "writeEntry"
    /\ Cardinality(kv) = MaxSubmits

----------------------------------------------------------------------------
(* Properties of the listing, under ListSpec *)

\* the stored pairs under the prefix whose text is a valid entry
ValidEntries ==
    {x \in kv : /\ x.key # <<>> /\ Head(x.key) = Text("entry::")
                /\ x.value.kind = "object"
                /\ x.value.value.unknown = {}
                /\ SHA256_REGEX(x.value.value.entropy)}

\* C12: the listing is always answered 200; what it returns is, in the order of the
\* keys and once each, entropy values of keys under "entry::" (real and shadow alike)
\* whose value is a valid entry, and it includes the value of every such key that is
\* still present when the listing ends; a key whose value is absent, empty, not
\* JSON or not a valid entry is skipped and the listing goes on.
C12_ListingSkipsBadEntries ==
    /\ \A j \in 1..Len(lsent) : lsent[j].status = 200
    /\ lpc = "read" => ENABLED (ListRead \/ ListSend)
    /\ \A j \in 1..Len(kvEntries) : \E x \in ValidEntries : x.value.value.entropy = kvEntries[j]
    /\ Cardinality(Range(kvEntries)) = Len(kvEntries)
    /\ lpc = "done" =>
          /\ lsent = <<[status |-> 200, body |-> kvEntries]>>
          /\ \A x \in ValidEntries : now < x.expiration => x.value.value.entropy \in Range(kvEntries)

C12_Witness ==
    /\ lpc = "done"
    /\ Len(lsent[1].body) = 2
    /\ now > 0
    /\ \E x \in kv : x.key = EntryKey(2) /\ x.value = NotJSON /\ now < x.expiration
    /\ \E x \in kv : x.key = LatestKey

----------------------------------------------------------------------------
(* Properties of the whole worker, under WorkerSpec *)

\* C14: a step changes the store only when it is one of the two puts of a
\* submission, at entry::<key>::hashed or at entry::<key>: the put adds one pair
\* under a key the store did not hold and leaves every other pair, 'latest'
\* included, as it was; the steps of retrieval, verification and listing leave the
\* store unchanged; and a pair stops being readable only when the clock reaches its
\* expiration.
C14_OnlySubmissionWrites ==
    [][/\ kv' # kv =>
             \E r \in Reqs : \E k \in {key[r], key[r] \o <<Text("::"), Text("hashed")>>} :
                 /\ puts'[r] = Append(puts[r], [key |-> k, ok |-> TRUE])
                 /\ Head(k) = Text("entry::")
                 /\ ~\E x \in kv : x.key = k
                 /\ kv \subseteq kv'
                 /\ Cardinality(kv') = Cardinality(kv) + 1
                 /\ \A x \in kv' \ kv : x.key = k
                 /\ UNCHANGED <<now, route, rpc, rsent, fetches, lpc, lkeys, kvEntries, lsent, vpc>>
       /\ (\E x \in kv : now < x.expiration /\ ~(x \in kv' /\ now' < x.expiration)) =>
             /\ now' > now
             /\ kv' = kv
       /\ \A x \in kv : x.key = <<Text("latest")>> => x \in kv' /\ now' < x.expiration
      ]_vars

C14_Witness ==
    /\ rpc = "done"
    /\ lpc = "done"
    /\ \E x \in kv : x.key = LatestKey
    /\ \E x \in kv : Len(x.key) = 2 /\ now >= x.expiration
    /\ Len(lsent[1].body) = 2
    /\ \E j \in 1..Len(rsent) : rsent[j].status = 200

----------------------------------------------------------------------------
(* Properties of the routes that read the origin, under RouteSpec *)

Statuses == [j \in 1..Len(rsent) |-> rsent[j].status]
FetchedFrom == [j \in 1..Len(fetches) |-> fetches[j].to]
Done(rt) == route = rt /\ rpc = "done"

\* the cache read yielded a value; the value is a record
CacheValue == kvLatest # {} /\ \A t \in kvLatest : t.kind # "empty"
CacheRecord == CacheValue /\ \A t \in kvLatest : t.kind = "object" /\ EntropyStruct(t.value)

\* C15 as written: GET /latest fetches from the origin only when the cache read for
\* 'latest' yielded no value; when the cache holds a record that record is the
\* result and no fetch is made; when the cache is empty the head record fetched
\* from the origin is the result.
C15_OriginOnlyOnCacheMiss ==
    route = "latest" =>
        /\ fetches # <<>> => ~CacheValue
        /\ (rpc = "done" /\ CacheRecord) =>
              /\ fetches = <<>>
              /\ \A t \in kvLatest : rsent = <<Found(t.value)>>
        /\ (rpc = "done" /\ ~CacheValue /\ \E x \in entropyResp : x.ok /\ CreateFault(x.body) = "") =>
              /\ FetchedFrom = <<LatestUrl>>
              /\ \A x \in entropyResp : rsent = <<Found(x.body.value)>>

\* C16: every fetch by commit id carries an id that matches SHA1_REGEX and every
\* fetch of the hash index a hash that matches SHA256_REGEX; a request whose path
\* parameter fails its pattern is answered 400 with no fetch; and in the hash routes
\* the fetch by commit id carries the id the index returned, which is made only when
\* that id matches SHA1_REGEX (the request is answered 400 otherwise).
C16_NoFetchWithBadIdentifier ==
    /\ \A j \in 1..Len(fetches) :
          /\ fetches[j].to.path = "{id}/entropy.json" => SHA1_REGEX(fetches[j].to.arg)
          /\ fetches[j].to.path = "main/index/by/entropy_hash/{hash}.json" =>
                SHA256_REGEX(fetches[j].to.arg)
    /\ ((route \in CommitRoutes /\ ~SHA1_REGEX(param)) \/ (route \in HashRoutes /\ ~SHA256_REGEX(param))) =>
          /\ fetches = <<>>
          /\ rpc \in {"start", "done"}
          /\ rpc = "done" => Statuses = <<400>>
    /\ route \in CommitRoutes => \A j \in 1..Len(fetches) : fetches[j].to = CommitUrl(param)
    /\ route \in HashRoutes =>
          /\ Len(fetches) <= 2
          /\ fetches # <<>> => fetches[1].to = IndexUrl(param)
          /\ Len(fetches) = 2 =>
                /\ fetches[1].got.ok
                /\ fetches[1].got.body.kind = "object"
                /\ fetches[2].to = CommitUrl(fetches[1].got.body.value.id)
          /\ (/\ Len(fetches) = 1 /\ rpc = "done" /\ ~fetches[1].got.raised /\ fetches[1].got.ok
               /\ fetches[1].got.body.kind = "object"
               /\ ~SHA1_REGEX(fetches[1].got.body.value.id)) => Statuses = <<400>>

C16_Witness ==
    /\ Done("hash")
    /\ Len(fetches) = 2
    /\ Head(fetches[2].to.arg) = OX
    /\ Head(param) = OX
    /\ Statuses = <<200>>

RetrievalRoutes == {"latest", "commit", "hash"}

\* the texts the handler took for a record found: a value read from the cache, and
\* the body of an answer of the origin whose ok flag is set
FoundTexts ==
    (IF route = "latest" THEN {t \in kvLatest : t.kind # "empty"} ELSE {})
    \cup {x.body : x \in {y \in entropyResp : y.ok}}
AllTexts == kvLatest \cup {x.body : x \in entropyResp}

\* the text is JSON and what it holds does not satisfy the EntropyRecord schema
FailsSchema(t) ==
    /\ t.kind \in {"object", "null"}
    /\ ~(/\ t.kind = "object"
         /\ t.value.unknown \subseteq {"id", "forCommit"}
         /\ iso8601UTC(t.value.createdAt)
         /\ \A j \in 1..Len(t.value.files) : JsonFileStruct(t.value.files[j])
         /\ SHA256_REGEX(t.value.hash)
         /\ t.value.hashIterations \in Int
         /\ t.value.hashType = "sha256"
         /\ (t.value.prevHash = Undefined \/ SHA256_REGEX(t.value.prevHash))
         /\ (t.value.signature = Undefined \/ SIGNATURE_REGEX(t.value.signature)))

\* C17: in GET /latest, /commit/:id and /hash/:hash every record sent with 200 is
\* the record of a text read from the cache or the origin and satisfies the
\* EntropyRecord schema; and when a text the handler took for a record found is JSON
\* that fails the schema, the request ends with 400 for it: it is never answered
\* 404 or 500, and a 200 sent in the same request carries another text's record.
C17_OnlySchemaValidRecordsReturned ==
    route \in RetrievalRoutes =>
        /\ \A j \in 1..Len(rsent) :
              rsent[j].status = 200 =>
                  \E t \in AllTexts : /\ JSONParses(t) /\ ~FailsSchema(t)
                                       /\ rsent[j].body = t.value
        /\ (rpc = "done" /\ \E t \in FoundTexts : FailsSchema(t)) =>
              /\ rsent[Len(rsent)].status = 400
              /\ \A j \in 1..Len(rsent) : rsent[j].status \in {200, 400}

C17_Witness ==
    /\ Done("hash")
    /\ Len(fetches) = 2
    /\ fetches[2].got = OriginResponse(TRUE, JSONStringify(OtherType))
    /\ Statuses = <<400>>

\* C18: in the hash routes, when the parameter is well formed and the origin answers
\* the index lookup with no entry (an answer that is not ok), no fetch by commit id
\* is made, no fault is raised, and the request is answered 404 and nothing else.
C18_NoIndexEntryIsNotFound ==
    (/\ route \in HashRoutes
     /\ SHA256_REGEX(param)
     /\ fetches # <<>>
     /\ ~fetches[1].got.raised
     /\ ~fetches[1].got.ok)
    => /\ Len(fetches) = 1
       /\ rpc \in {"answer", "done"}
       /\ rpc = "answer" => rsent = <<>> /\ ENABLED (RetrieveAnswer \/ VerifyJson)
       /\ rpc = "done" => rsent = <<Problem(404)>>
       /\ vpc = "idle"

C18_Witness ==
    /\ Done("hash")
    /\ Head(param) = OX
    /\ Len(fetches) = 1
    /\ ~fetches[1].got.raised
    /\ ~fetches[1].got.ok
    /\ Statuses = <<404>>

\* a tier failed: the cache held a value that is no record, or the origin raised,
\* answered not ok, or answered with a body that is not JSON
CacheUnusable == route = "latest" /\ CacheValue /\ ~CacheRecord
OriginFailed ==
    \E j \in 1..Len(fetches) :
        \/ fetches[j].got.raised
        \/ ~fetches[j].got.ok
        \/ ~JSONParses(fetches[j].got.body)

\* C19 as written: in the retrieval routes a failed tier falls through to the next
\* tier where there is one (an unusable cache value to the origin) and otherwise
\* ends in not found; it is never answered as a server error; and no tier is
\* attempted more than once within one request.
C19_FailedTierFallsThrough ==
    (route \in RetrievalRoutes /\ rpc = "done") =>
        /\ \A i, j \in 1..Len(fetches) : fetches[i].to = fetches[j].to => i = j
        /\ CacheUnusable => fetches # <<>>
        /\ (CacheUnusable \/ OriginFailed) => \A j \in 1..Len(rsent) : rsent[j].status # 500
        /\ OriginFailed => rsent[Len(rsent)].status = 404

\* the answer of the origin to the last fetch of the request
LastGot == fetches[Len(fetches)].got

\* C20: the verify routes send at most once.  They answer 200 {verified: true} with
\* the fetched record only when hasValidEntropySignature returned true for that
\* record, called with the record's own hash in the commit route and with the hash of
\* the request in the hash route; they answer 406 whenever it returned false and 404
\* when the origin answered with no record; and 500 is sent only in a request in
\* which the function was never called.
C20_VerifyAnswers ==
    route \in VerifyRoutes =>
        /\ Len(rsent) <= 1
        /\ verified # "raised"
        /\ \A j \in 1..Len(rsent) :
              /\ rsent[j].status = 200 =>
                    /\ vpc = "done"
                    /\ verified = "true"
                    /\ rsent[j].body = [verified |-> TRUE, entropy |-> entropy]
                    /\ LastGot.ok /\ LastGot.body = [kind |-> "object", value |-> entropy]
                    /\ claimedHash = IF route = "verifyHash" THEN param ELSE entropy.hash
                    /\ FourConditions(claimedHash, entropy)
              /\ rsent[j].status = 500 => vpc = "idle"
        /\ (rpc = "done" /\ vpc = "done" /\ verified = "false") => rsent = <<Problem(406)>>
        /\ (rpc = "done" /\ fetches # <<>> /\ ~LastGot.raised /\ ~LastGot.ok) =>
              /\ rsent = <<Problem(404)>>
              /\ vpc = "idle"
        /\ rpc = "verify" =>
              ENABLED (VAssert \/ VHash \/ VSignature \/ VConcat \/ VDigest \/ VCompare \/ VerifyAnswer)

C20_Witness ==
    /\ Done("verifyHash")
    /\ entropy = Tampered
    /\ digestCalls >= 1
    /\ faulted = ""
    /\ verified = "false"
    /\ Statuses = <<406>>

\* the record is a signed record one of whose file hashes was altered after signing:
\* it satisfies the schema, its signature verifies over its hash, and putting one
\* file hash back makes the file hashes digest to its hash
AlteredAfterSigning(e) ==
    /\ SignedEntropyStruct(e)
    /\ SignatureVerifies(e)
    /\ IterDigest(concatenateFileHashes(e.files), e.hashIterations) # e.hash
    /\ \E j \in 1..Len(e.files) : \E h \in FileHashes :
          LET r == [e EXCEPT !.files[j].hash = h]
          IN IterDigest(concatenateFileHashes(r.files), r.hashIterations) = r.hash

\* C21: when the origin answers the fetch by commit id with a signed record one of
\* whose file hashes was altered after signing, the verify routes answer 406 and
\* nothing else, and GET /commit/:id and GET /hash/:hash answer 200 with that record
\* and nothing else, without a call of the verifier.
C21_AlteredRecordRetrievedNotVerified ==
    (/\ rpc = "done"
     /\ route \in CommitRoutes \cup HashRoutes
     /\ fetches # <<>>
     /\ fetches[Len(fetches)].to.path = "{id}/entropy.json"
     /\ ~LastGot.raised
     /\ LastGot.ok
     /\ LastGot.body.kind = "object"
     /\ AlteredAfterSigning(LastGot.body.value))
    => /\ route \in VerifyRoutes =>
             /\ rsent = <<Problem(406)>>
             /\ verified = "false"
             /\ entropy = LastGot.body.value
       /\ route \in {"commit", "hash"} =>
             /\ rsent = <<Found(LastGot.body.value)>>
             /\ vpc = "idle"
             /\ digestCalls = 0

C21_Witness ==
    /\ Done("commit")
    /\ Statuses = <<200>>
    /\ LastGot = OriginResponse(TRUE, JSONStringify(Tampered))
    /\ rsent[1].body.files[1].hash # Genuine.files[1].hash
    /\ rsent[1].body.signature = Genuine.signature

----------------------------------------------------------------------------
(* Properties of the iterated digest, under VerifySpec *)

\* C22: for a record that satisfies the schema, whose signature verifies and whose
\* hashIterations is 0, verify(r.hash, r) applies no digest and returns true exactly
\* when r.hash equals the plain concatenation of the file hashes.
C22_ZeroIterationsIsPlainConcatenation ==
    (/\ vpc = "done"
     /\ entropy.hashIterations = 0
     /\ claimedHash = entropy.hash
     /\ SignedEntropyStruct(entropy)
     /\ SignatureVerifies(entropy))
    => /\ digestCalls = 0
       /\ faulted = ""
       /\ verified \in {"true", "false"}
       /\ (verified = "true") <=> (entropy.hash = concatenateFileHashes(entropy.files))

C22_Witness ==
    /\ vpc = "done"
    /\ entropy.hashIterations = 0
    /\ Len(entropy.files) = 2
    /\ entropy.hash = entropy.files[1].hash \o entropy.files[2].hash
    /\ digestCalls = 0
    /\ verified = "true"

\* the attributes the result of verify may depend on
SignedFields(e) ==
    <<e.hash, e.signature, e.hashIterations, [j \in 1..Len(e.files) |-> e.files[j].hash]>>

LoopCompleted ==
    /\ vpc = "done"
    /\ SignedEntropyStruct(entropy)
    /\ claimedHash = entropy.hash
    /\ SignatureVerifies(entropy)
    /\ faulted = ""

\* n rounds of SHA-256 over the lower-case hex of the round before, from s
RECURSIVE Rounds(_, _)
Rounds(s, n) == IF n = 0 THEN s ELSE <<Tok("sha", FALSE, 0, Rounds(s, n - 1))>>

\* C26 as written: for every record the SignedEntropy schema accepts, the iterated
\* digest step applies the digest exactly record.hashIterations times, each round over
\* the lower-case hex output of the round before, starting from the concatenated file
\* hashes, an empty files list included.
C26_DigestAppliedExactlyNTimes ==
    LoopCompleted =>
        /\ digestCalls = entropy.hashIterations
        /\ newHash = Rounds(concatenateFileHashes(entropy.files), digestCalls)

SameButIterations(r, e) ==
    e.hashIterations # r.hashIterations /\ e = [r EXCEPT !.hashIterations = e.hashIterations]

\* C30 as written: after verify(r.hash, r) returned true, the record r with
\* hashIterations replaced by any other value the schema accepts makes verify return
\* false.
C30_IterationsBoundToHash ==
    (/\ AfterTrueCall
     /\ claimedHash = entropy.hash
     /\ SignedEntropyStruct(entropy)
     /\ SameButIterations(prev[1].entropy, entropy))
    => verified = "false"

\* C27: a call in which the schema check, the comparison of the claimed hash with
\* record.hash or the signature check fails never applies the digest, not even once,
\* and ends with false.
C27_NoDigestBeforeSignature ==
    (vpc # "idle" /\ (\/ ~SignedEntropyStruct(entropy)
                      \/ claimedHash # entropy.hash
                      \/ ~SignatureVerifies(entropy)))
    => /\ digestCalls = 0
       /\ vpc \notin {"concat", "loop"}
       /\ vpc = "done" => verified = "false"

C27_Witness ==
    /\ vpc = "done"
    /\ SignedEntropyStruct(entropy)
    /\ claimedHash = entropy.hash
    /\ ~SignatureVerifies(entropy)
    /\ HexDecodable(entropy.signature)
    /\ entropy.hashIterations = MaxIter
    /\ IterDigest(concatenateFileHashes(entropy.files), entropy.hashIterations) = entropy.hash
    /\ digestCalls = 0
    /\ verified = "false"

----------------------------------------------------------------------------
(* Properties of the format validators, under ValueSpec *)

HexDigit(c) ==
    c \in {"0", "1", "2", "3", "4", "5", "6", "7", "8", "9",
           "a", "b", "c", "d", "e", "f", "A", "B", "C", "D", "E", "F"}

\* a string of 64 hexadecimal characters
Hex64(v) == v.type = "string" /\ Len(v.chars) = 64 /\ \A j \in 1..64 : HexDigit(v.chars[j])

\* C25: sha256Hash() accepts a value exactly when it is a string made of zero or
\* more prefixes 0x (the x in either case) followed by exactly 32 pairs of
\* hexadecimal digits in either case and nothing else; a string of 64 hexadecimal
\* characters is accepted, and it is rejected after one character was removed from
\* it and after one character of it was replaced by a character that is not a
\* hexadecimal digit.
C25_Sha256PatternExact ==
    /\ sha256HashOfValue(value) <=>
          /\ value.type = "string"
          /\ \E k \in 0..Len(value.chars) :
                /\ Len(value.chars) = 2 * k + 64
                /\ \A j \in 1..k : value.chars[2 * j - 1] = "0" /\ value.chars[2 * j] \in {"x", "X"}
                /\ \A j \in (2 * k + 1)..Len(value.chars) : HexDigit(value.chars[j])
    /\ Hex64(value) => sha256HashOfValue(value)
    /\ (change = "removed" /\ Hex64(given)) => ~sha256HashOfValue(value)
    /\ (change = "replaced" /\ Hex64(given) /\ \E j \in 1..64 : ~HexDigit(value.chars[j])) =>
          ~sha256HashOfValue(value)

C25_Witness ==
    /\ change = "replaced"
    /\ Hex64(given)
    /\ sha256HashOfValue(given)
    /\ value.chars[64] = "g"
    /\ ~sha256HashOfValue(value)

----------------------------------------------------------------------------
(* Properties of the responses, under WorkerSpec *)

\* C28 as written: every request handler sends at most one response per request: in
\* GET /latest, /commit/:id, /hash/:hash, the verify routes, POST /entries and
\* GET /entries no second send follows a first one.
C28_AtMostOneSend ==
    /\ Len(rsent) <= 1
    /\ Len(lsent) <= 1
    /\ \A r \in Reqs : Len(sent[r]) <= 1

----------------------------------------------------------------------------
(* Properties of the responses, under AnswerSpec *)

\* C29 as written: every request eventually receives a response: the handler, on
\* every path, the faults of the origin fetch, of JSON parsing and of validation
\* included, comes to its end having sent a response.
C29_EveryRequestAnswered == <>(rpc = "done" /\ rsent # <<>>)

====
